---- MODULE Spec2Model ----
(***************************************************************************)
(* A model of the QUEST project registry (src/quest/api/projects.py).      *)
(*                                                                         *)
(* State: the project index file (project_index.yml: the 'projects'        *)
(* mapping, in the sorted key order every write leaves it in, and the      *)
(* optional 'active_project' key),                                         *)
(* the folders on disk with their metadata.db stores, and the process's    *)
(* open store connection.  One action per public API function; each action *)
(* runs the whole function, nested calls included.                         *)
(*                                                                         *)
(* The identifier functions of src/quest/util/misc.py (parse_service_uri,  *)
(* is_uuid, classify_uris, uuid) are pure: they are operators over strings *)
(* kept as sequences of characters, each applied by a specification of its *)
(* own whose initial states draw the argument.                             *)
(***************************************************************************)
EXTENDS Integers, Sequences, FiniteSets, TLC

VARIABLES
    index,  \* project_index.yml: [active, projects]
    disk,   \* folder path -> [exists, db, records]
    conn,   \* dbpath the process-wide store connection is bound to
    last,   \* the last API call: its arguments, outcome and the state before it
    call,   \* a call of a utility function (src/quest/util/misc.py): argument, result
    procs   \* new_project calls running in separate processes, one read or write at a time

vars == <<index, disk, conn, last, call, procs>>

\* ------------------------------------------------------------------ bounds

\* Largest number of Project records a store is let to hold (the code has no
\* limit: every new_project on an existing store inserts one more).
MaxRecords == 2

\* ------------------------------------------------------------ input universe

PROJECT_DB_FILE == "metadata.db"

\* settings['PROJECTS_DIR'] resolved by util.get_projects_dir()
ProjectsDir == "/projects"

\* index without an 'active_project' key
NoKey == "<no active_project key>"

\* folder=None
NoFolder == "<None>"

\* nothing connected yet
NoConn == "<not connected>"

\* project names passed by callers (two of them are not lower-case)
ArgNames == {"default", "p1", "p2", "a3", "P1", "A3"}

\* folder arguments of new_project: None, or the relative folder that the
\* project named p1 uses by default
FolderArgs == {NoFolder, "p1"}

\* absolute paths passed to add_project: a folder holding a valid project
\* store, a folder whose store holds no Project record, and a path that does
\* not exist
ExtValid == "/ext/valid"
ExtEmpty == "/ext/empty"
ExtMissing == "/ext/missing"
ExtPaths == {ExtValid, ExtEmpty, ExtMissing}

\* str.lower() on the names of ArgNames
lower(name) ==
    CASE name = "P1" -> "p1"
      [] name = "A3" -> "a3"
      [] OTHER -> name

Names == {lower(n) : n \in ArgNames}

\* os.path.isabs on the folders of the model
isabs(folder) == folder \in ExtPaths

\* os.path.join(a, b) for a relative b
join(a, b) == a \o "/" \o b

\* the folder -> path resolution every function repeats
ResolvePath(folder) ==
    IF ~isabs(folder) THEN join(ProjectsDir, folder) ELSE folder

RelFolders == Names \cup (FolderArgs \ {NoFolder})

Paths == {join(ProjectsDir, f) : f \in RelFolders} \cup ExtPaths

Absent == [exists |-> FALSE, db |-> FALSE, records |-> 0]

\* ------------------------------------------------------ dict (ordered mapping)

\* projects.keys(), as a set and in iteration order
Keys(projects) == {projects[i].name : i \in DOMAIN projects}

KeyList(projects) == [i \in DOMAIN projects |-> projects[i].name]

\* projects[name]['folder']
FolderOf(projects, name) ==
    LET i == CHOOSE j \in DOMAIN projects : projects[j].name = name
    IN  projects[i].folder

\* projects.update({name: {'folder': folder}})
DictUpdate(projects, name, folder) ==
    IF name \in Keys(projects)
    THEN [i \in DOMAIN projects |->
            IF projects[i].name = name
            THEN [name |-> name, folder |-> folder] ELSE projects[i]]
    ELSE Append(projects, [name |-> name, folder |-> folder])

\* del projects[name] / projects.pop(name)
DictDel(projects, name) ==
    SelectSeq(projects, LAMBDA e : e.name # name)

\* ------------------------------------------------------------ file system

\* util.mkdir_if_doesnt_exist(path)
mkdir_if_doesnt_exist(w, path) ==
    [w EXCEPT !.disk[path].exists = TRUE]

\* shutil.rmtree(path)
rmtree(w, path) ==
    [w EXCEPT !.disk[path] = Absent]

\* init_db(os.path.join(path, PROJECT_DB_FILE)): binds a store handle to the
\* file, creating an empty store when the file is not there
init_db(w, path) ==
    IF w.disk[path].db
    THEN w
    ELSE [w EXCEPT !.disk[path].db = TRUE,
                   !.disk[path].records = 0,
                   !.created = @ \cup {path}]

\* with db_session: db.Project(...)
InsertProject(w, path) ==
    [w EXCEPT !.disk[path].records = @ + 1]

\* ------------------------------------------------------------- the index

\* the names of the model in the order Python compares strings
SortedNames == <<"A3", "P1", "a3", "default", "p1", "p2">>

\* the entries of a mapping in the order of their keys, from the i-th name on
RECURSIVE SortFrom(_, _)
SortFrom(projects, i) ==
    IF i > Len(SortedNames) THEN <<>>
    ELSE (IF SortedNames[i] \in Keys(projects)
          THEN <<[name |-> SortedNames[i],
                  folder |-> FolderOf(projects, SortedNames[i])]>>
          ELSE <<>>)
         \o SortFrom(projects, i + 1)

\* yaml.dump writes the keys of a mapping in sorted order
sort_keys(projects) == SortFrom(projects, 1)

\* util.read_yaml(path) of the index file
read_yaml(w) == w.index

\* util.write_yaml(path, contents) of the index file
write_yaml(w, contents) ==
    [w EXCEPT !.index = [active |-> contents.active,
                         projects |-> sort_keys(contents.projects)]]

load_projects(w) == read_yaml(w).projects

write_projects(w, projects) ==
    write_yaml(w, [read_yaml(w) EXCEPT !.projects = projects])

\* without the key, 'default' is returned only while it is registered
get_active_project_registered(w) ==
    IF w.index.active # NoKey THEN w.index.active
    ELSE IF "default" \in Keys(w.index.projects) \/ w.index.projects = <<>>
    THEN "default"
    ELSE w.index.projects[1].name

get_active_project(w) ==
    IF read_yaml(w).active = NoKey THEN "default" ELSE read_yaml(w).active

get_projects(w) == KeyList(load_projects(w))

Raise(w) == [w |-> w, raised |-> TRUE, ret |-> <<>>]

Return(w, ret) == [w |-> w, raised |-> FALSE, ret |-> ret]

\* _get_project_db(name): ret is <<folder path of the store>>
get_project_db(w, name) ==
    LET projects == load_projects(w)
    IN  IF name \notin Keys(projects)
        THEN Raise(w)
        ELSE LET path == ResolvePath(FolderOf(projects, name))
             IN  Return(mkdir_if_doesnt_exist(w, path), <<path>>)

\* active_db()
active_db(w) == get_project_db(w, get_active_project(w))

\* get_db(dbpath, reconnect=True): the process-wide connection is re-bound
get_db(w, path) ==
    [init_db(w, path) EXCEPT !.conn = join(path, PROJECT_DB_FILE)]

\* _load_project(name): a handle is opened, Project.get() needs exactly one
\* record, and the handle is disconnected only when it found one
load_project(w, name) ==
    LET g == get_project_db(w, name)
    IN  IF g.raised
        THEN Raise(g.w)
        ELSE LET path == g.ret[1]
                 w1 == init_db(g.w, path)
             IN  IF w1.disk[path].records # 1
                 THEN Raise([w1 EXCEPT !.leaked = @ \cup {path}])
                 ELSE Return(w1, <<name>>)

\* get_projects(expand, as_dataframe), the loop over _load_projects().items()
\* from its i-th entry on: every project is loaded in the order of the index
\* file, and the first one that cannot be loaded ends the call
RECURSIVE get_projects_from(_, _, _)
get_projects_from(w, projects, i) ==
    IF i > Len(projects)
    THEN Return(w, KeyList(projects))
    ELSE LET r == load_project(w, projects[i].name)
         IN  IF r.raised
             THEN Raise(r.w)
             ELSE get_projects_from(r.w, projects, i + 1)

\* get_projects(expand=True) and get_projects(as_dataframe=True)
get_projects_expand(w) == get_projects_from(w, load_projects(w), 1)

\* the pointer is written before the name is looked up
set_active_project_write_first(w, name) ==
    LET w1 == write_yaml(w, [read_yaml(w) EXCEPT !.active = name])
        a == active_db(w1)
    IN  IF a.raised
        THEN Raise(a.w)
        ELSE Return(get_db(a.w, a.ret[1]), <<name>>)

\* the store is reconnected but the pointer is not written
set_active_project_not_persisted(w, name) ==
    IF name \notin Keys(w.index.projects)
    THEN Raise(w)
    ELSE LET a == active_db(w)
         IN  IF a.raised
             THEN Raise(a.w)
             ELSE Return(get_db(a.w, a.ret[1]), <<name>>)

\* the name is lower-cased before it is looked up
set_active_project_lower(w, name) ==
    IF lower(name) \notin Keys(w.index.projects)
    THEN Raise(w)
    ELSE LET w1 == write_yaml(w, [read_yaml(w) EXCEPT !.active = lower(name)])
             a == active_db(w1)
         IN  IF a.raised
             THEN Raise(a.w)
             ELSE Return(get_db(a.w, a.ret[1]), <<lower(name)>>)

\* the pointer is written but the store connection is left where it was
set_active_project_no_reconnect(w, name) ==
    IF name \notin Keys(w.index.projects)
    THEN Raise(w)
    ELSE LET w1 == write_yaml(w, [read_yaml(w) EXCEPT !.active = name])
             a == active_db(w1)
         IN  IF a.raised THEN Raise(a.w) ELSE Return(a.w, <<name>>)

set_active_project(w, name) ==
    IF name \notin Keys(w.index.projects)
    THEN Raise(w)
    ELSE LET w1 == write_yaml(w, [read_yaml(w) EXCEPT !.active = name])
             a == active_db(w1)
         IN  IF a.raised
             THEN Raise(a.w)
             ELSE Return(get_db(a.w, a.ret[1]), <<name>>)

\* the name is compared and stored as given
new_project_case_sensitive(w, argname, folderArg, activate) ==
    LET name == argname
        projects == load_projects(w)
    IN  IF name \in Keys(projects)
        THEN Raise(w)
        ELSE LET folder == IF folderArg = NoFolder THEN name ELSE folderArg
                 path == ResolvePath(lower(folder))
                 w1 == mkdir_if_doesnt_exist(w, path)
                 w2 == init_db(w1, path)
                 w3 == InsertProject(w2, path)
                 w4 == write_projects(w3, DictUpdate(projects, name, lower(folder)))
                 s == IF activate THEN set_active_project(w4, name)
                                  ELSE Return(w4, <<>>)
             IN  IF s.raised THEN Raise(s.w) ELSE load_project(s.w, name)

\* the index is written with the new entry alone
new_project_drops_others(w, argname, folderArg, activate) ==
    LET name == lower(argname)
        projects == load_projects(w)
    IN  IF name \in Keys(projects)
        THEN Raise(w)
        ELSE LET folder == IF folderArg = NoFolder THEN name ELSE folderArg
                 path == ResolvePath(folder)
                 w1 == mkdir_if_doesnt_exist(w, path)
                 w2 == init_db(w1, path)
                 w3 == InsertProject(w2, path)
                 w4 == write_projects(w3, DictUpdate(<<>>, name, folder))
                 s == IF activate THEN set_active_project(w4, name)
                                  ELSE Return(w4, <<>>)
             IN  IF s.raised THEN Raise(s.w) ELSE load_project(s.w, name)

\* the new project is made active whatever activate says
new_project_always_activates(w, argname, folderArg, activate) ==
    LET name == lower(argname)
        projects == load_projects(w)
    IN  IF name \in Keys(projects)
        THEN Raise(w)
        ELSE LET folder == IF folderArg = NoFolder THEN name ELSE folderArg
                 path == ResolvePath(folder)
                 w1 == mkdir_if_doesnt_exist(w, path)
                 w2 == init_db(w1, path)
                 w3 == InsertProject(w2, path)
                 w4 == write_projects(w3, DictUpdate(projects, name, folder))
                 s == set_active_project(w4, name)
             IN  IF s.raised THEN Raise(s.w) ELSE load_project(s.w, name)

new_project(w, argname, folderArg, activate) ==
    LET name == lower(argname)
        projects == load_projects(w)
    IN  IF name \in Keys(projects)
        THEN Raise(w)
        ELSE LET folder == IF folderArg = NoFolder THEN name ELSE folderArg
                 path == ResolvePath(folder)
                 w1 == mkdir_if_doesnt_exist(w, path)
                 w2 == init_db(w1, path)
                 w3 == InsertProject(w2, path)
                 w4 == write_projects(w3, DictUpdate(projects, name, folder))
                 s == IF activate THEN set_active_project(w4, name)
                                  ELSE Return(w4, <<>>)
             IN  IF s.raised THEN Raise(s.w) ELSE load_project(s.w, name)

\* the name is compared and stored as given
add_project_case_sensitive(w, argname, path, activate) ==
    LET name == argname
        projects == load_projects(w)
    IN  IF name \in Keys(projects)
        THEN Raise(w)
        ELSE IF ~w.disk[path].exists
        THEN Raise(w)
        ELSE LET updated == DictUpdate(projects, name, path)
                 w1 == write_projects(w, updated)
                 p == load_project(w1, name)
             IN  IF p.raised
                 THEN Raise(write_projects(p.w, DictDel(updated, name)))
                 ELSE IF activate
                 THEN LET s == set_active_project(p.w, name)
                      IN  IF s.raised THEN Raise(s.w) ELSE Return(s.w, <<name>>)
                 ELSE Return(p.w, <<name>>)

\* the entry written before the store is loaded is not taken back
add_project_no_rollback(w, argname, path, activate) ==
    LET name == lower(argname)
        projects == load_projects(w)
    IN  IF name \in Keys(projects)
        THEN Raise(w)
        ELSE IF ~w.disk[path].exists
        THEN Raise(w)
        ELSE LET updated == DictUpdate(projects, name, path)
                 w1 == write_projects(w, updated)
                 p == load_project(w1, name)
             IN  IF p.raised
                 THEN Raise(p.w)
                 ELSE IF activate
                 THEN LET s == set_active_project(p.w, name)
                      IN  IF s.raised THEN Raise(s.w) ELSE Return(s.w, <<name>>)
                 ELSE Return(p.w, <<name>>)

add_project(w, argname, path, activate) ==
    LET name == lower(argname)
        projects == load_projects(w)
    IN  IF name \in Keys(projects)
        THEN Raise(w)
        ELSE IF ~w.disk[path].exists
        THEN Raise(w)
        ELSE LET updated == DictUpdate(projects, name, path)
                 w1 == write_projects(w, updated)
                 p == load_project(w1, name)
             IN  IF p.raised
                 THEN Raise(write_projects(p.w, DictDel(updated, name)))
                 ELSE IF activate
                 THEN LET s == set_active_project(p.w, name)
                      IN  IF s.raised THEN Raise(s.w) ELSE Return(s.w, <<name>>)
                 ELSE Return(p.w, <<name>>)

\* the project made active in place of a removed one, under the policy how
Pick(projects, how) ==
    IF how # "first" /\ "default" \in Keys(projects) THEN "default"
    ELSE IF how = "last" THEN projects[Len(projects)].name
    ELSE projects[1].name

\* remove_project with its policy left open: reseed says whether an emptied
\* registry gets a new 'default', how names the policy of Pick, always says
\* whether the pointer is reassigned when another project was removed
RemoveWith(w, name, reseed, how, always) ==
    LET loaded == load_projects(w)
    IN  IF name \notin Keys(loaded)
        THEN Return(w, KeyList(loaded))
        ELSE LET projects == DictDel(loaded, name)
                 w1 == write_projects(w, projects)
             IN  IF name # get_active_project(w1) /\ ~always
                 THEN Return(w1, KeyList(projects))
                 ELSE IF Len(projects) > 0
                 THEN LET s == set_active_project(w1, Pick(projects, how))
                      IN  IF s.raised THEN Raise(s.w)
                                      ELSE Return(s.w, KeyList(projects))
                 ELSE IF ~reseed
                 THEN Return(w1, KeyList(projects))
                 ELSE LET n == new_project(w1, "default", NoFolder, TRUE)
                      IN  IF n.raised THEN Raise(n.w)
                                      ELSE Return(n.w, get_projects(n.w))

\* an emptied registry is left empty
remove_project_no_reseed(w, name) ==
    RemoveWith(w, name, FALSE, "default", FALSE)

\* 'default' is not preferred over the first remaining project
remove_project_first(w, name) ==
    RemoveWith(w, name, TRUE, "first", FALSE)

\* the last remaining project is picked instead of the first
remove_project_last(w, name) ==
    RemoveWith(w, name, TRUE, "last", FALSE)

\* the pointer is reassigned whichever project was removed
remove_project_always(w, name) ==
    RemoveWith(w, name, TRUE, "default", TRUE)

\* the pointer is left on the removed project
remove_project_keep_active(w, name) ==
    LET loaded == load_projects(w)
    IN  IF name \notin Keys(loaded)
        THEN Return(w, KeyList(loaded))
        ELSE LET projects == DictDel(loaded, name)
                 w1 == write_projects(w, projects)
             IN  IF Len(projects) > 0
                 THEN Return(w1, KeyList(projects))
                 ELSE LET n == new_project(w1, "default", NoFolder, TRUE)
                      IN  IF n.raised THEN Raise(n.w)
                                      ELSE Return(n.w, get_projects(n.w))

\* after 'default' is re-created the emptied dict is returned
remove_project_stale_return(w, name) ==
    LET loaded == load_projects(w)
    IN  IF name \notin Keys(loaded)
        THEN Return(w, KeyList(loaded))
        ELSE LET projects == DictDel(loaded, name)
                 w1 == write_projects(w, projects)
             IN  IF name # get_active_project(w1)
                 THEN Return(w1, KeyList(projects))
                 ELSE IF "default" \in Keys(projects)
                 THEN LET s == set_active_project(w1, "default")
                      IN  IF s.raised THEN Raise(s.w)
                                      ELSE Return(s.w, KeyList(projects))
                 ELSE IF Len(projects) > 0
                 THEN LET s == set_active_project(w1, projects[1].name)
                      IN  IF s.raised THEN Raise(s.w)
                                      ELSE Return(s.w, KeyList(projects))
                 ELSE LET n == new_project(w1, "default", NoFolder, TRUE)
                      IN  IF n.raised THEN Raise(n.w)
                                      ELSE Return(n.w, KeyList(projects))

remove_project(w, name) ==
    LET loaded == load_projects(w)
    IN  IF name \notin Keys(loaded)
        THEN Return(w, KeyList(loaded))
        ELSE LET projects == DictDel(loaded, name)
                 w1 == write_projects(w, projects)
             IN  IF name # get_active_project(w1)
                 THEN Return(w1, KeyList(projects))
                 ELSE IF "default" \in Keys(projects)
                 THEN LET s == set_active_project(w1, "default")
                      IN  IF s.raised THEN Raise(s.w)
                                      ELSE Return(s.w, KeyList(projects))
                 ELSE IF Len(projects) > 0
                 THEN LET s == set_active_project(w1, projects[1].name)
                      IN  IF s.raised THEN Raise(s.w)
                                      ELSE Return(s.w, KeyList(projects))
                 ELSE LET n == new_project(w1, "default", NoFolder, TRUE)
                      IN  IF n.raised THEN Raise(n.w)
                                      ELSE Return(n.w, get_projects(n.w))

\* the name is lower-cased before it is looked up
delete_project_lower(w, name) ==
    LET projects == load_projects(w)
    IN  IF lower(name) \notin Keys(projects)
        THEN Return(w, KeyList(projects))
        ELSE LET path == ResolvePath(FolderOf(projects, lower(name)))
                 w1 == IF w.disk[path].exists THEN rmtree(w, path) ELSE w
             IN  remove_project(w1, lower(name))

delete_project(w, name) ==
    LET projects == load_projects(w)
    IN  IF name \notin Keys(projects)
        THEN Return(w, KeyList(projects))
        ELSE LET path == ResolvePath(FolderOf(projects, name))
                 w1 == IF w.disk[path].exists THEN rmtree(w, path) ELSE w
             IN  remove_project(w1, name)

\* --------------------------------------------------------------- actions

\* new_project(name, folder=...) calls: p2 is created in the folder of p1,
\* every other name in its own folder
NewProjectArgs ==
    {<<n, NoFolder>> : n \in {"default", "p1", "P1"}} \cup {<<"p2", "p1">>}

\* the names delete_project, remove_project and set_active_project are
\* called with
LookupArgs == {"default", "p1", "p2", "a3", "P1"}

\* add_project(name, path) calls
AddProjectArgs == {<<"a3", p>> : p \in ExtPaths} \cup {<<"A3", ExtValid>>}

\* the state an API call starts from
Cur ==
    [index |-> index, disk |-> disk, conn |-> conn,
     leaked |-> {}, created |-> {}]

Snapshot == [index |-> index, disk |-> disk, conn |-> conn]

\* no store of the outcome holds more records than the model follows
WithinBounds(r) == \A p \in Paths : r.w.disk[p].records <= MaxRecords

\* the record of a call: its arguments, its outcome r, the state before it
CallRecord(op, name, arg, activate, r) ==
    [op |-> op, name |-> name, arg |-> arg, activate |-> activate,
     raised |-> r.raised, ret |-> r.ret,
     leaked |-> r.w.leaked, created |-> r.w.created,
     pre |-> Snapshot]

NewProject ==
    \E a \in NewProjectArgs, activate \in BOOLEAN :
        LET r == new_project(Cur, a[1], a[2], activate)
        IN  /\ WithinBounds(r)
            /\ index' = r.w.index
            /\ disk' = r.w.disk
            /\ conn' = r.w.conn
            /\ last' = CallRecord("new_project", a[1], a[2], activate, r)
            /\ call' = call
            /\ procs' = procs

AddProject ==
    \E a \in AddProjectArgs, activate \in BOOLEAN :
        LET r == add_project(Cur, a[1], a[2], activate)
        IN  /\ WithinBounds(r)
            /\ index' = r.w.index
            /\ disk' = r.w.disk
            /\ conn' = r.w.conn
            /\ last' = CallRecord("add_project", a[1], a[2], activate, r)
            /\ call' = call
            /\ procs' = procs

DeleteProject ==
    \E name \in LookupArgs :
        LET r == delete_project(Cur, name)
        IN  /\ WithinBounds(r)
            /\ index' = r.w.index
            /\ disk' = r.w.disk
            /\ conn' = r.w.conn
            /\ last' = CallRecord("delete_project", name, NoFolder, FALSE, r)
            /\ call' = call
            /\ procs' = procs

RemoveProject ==
    \E name \in LookupArgs :
        LET r == remove_project(Cur, name)
        IN  /\ WithinBounds(r)
            /\ index' = r.w.index
            /\ disk' = r.w.disk
            /\ conn' = r.w.conn
            /\ last' = CallRecord("remove_project", name, NoFolder, FALSE, r)
            /\ call' = call
            /\ procs' = procs

SetActiveProject ==
    \E name \in LookupArgs :
        LET r == set_active_project(Cur, name)
        IN  /\ WithinBounds(r)
            /\ index' = r.w.index
            /\ disk' = r.w.disk
            /\ conn' = r.w.conn
            /\ last' = CallRecord("set_active_project", name, NoFolder, FALSE, r)
            /\ call' = call
            /\ procs' = procs

ActiveDb ==
    LET r == active_db(Cur)
    IN  /\ WithinBounds(r)
        /\ index' = r.w.index
        /\ disk' = r.w.disk
        /\ conn' = r.w.conn
        /\ last' = CallRecord("active_db", "", NoFolder, FALSE, r)
        /\ call' = call
        /\ procs' = procs

GetProjects ==
    \E expand \in BOOLEAN, as_dataframe \in BOOLEAN :
        LET r == IF ~expand /\ ~as_dataframe
                 THEN Return(Cur, get_projects(Cur))
                 ELSE get_projects_expand(Cur)
        IN  /\ WithinBounds(r)
            /\ index' = r.w.index
            /\ disk' = r.w.disk
            /\ conn' = r.w.conn
            /\ last' = CallRecord("get_projects", "",
                                  IF as_dataframe THEN "as_dataframe"
                                  ELSE IF expand THEN "expand" ELSE "list",
                                  FALSE, r)
            /\ call' = call
            /\ procs' = procs

\* no process is inside a call
NoProcs == <<>>

\* no utility function is being called
NoCall == [fn |-> "none", arg |-> <<>>, done |-> FALSE, ret |-> <<>>]

\* A fresh installation: the 'default' project alone, with or without an
\* 'active_project' key; the folders callers may pass to add_project.
InitDisk ==
    [p \in Paths |->
        IF p \in {join(ProjectsDir, "default"), ExtValid}
        THEN [exists |-> TRUE, db |-> TRUE, records |-> 1]
        ELSE IF p = ExtEmpty
        THEN [exists |-> TRUE, db |-> TRUE, records |-> 0]
        ELSE Absent]

Init ==
    /\ index \in {[active |-> a,
                   projects |-> <<[name |-> "default", folder |-> "default"]>>]
                  : a \in {NoKey, "default"}}
    /\ disk = InitDisk
    /\ conn = NoConn
    /\ last = [op |-> "init", name |-> "", arg |-> NoFolder, activate |-> FALSE,
               raised |-> FALSE, ret |-> <<>>, leaked |-> {}, created |-> {},
               pre |-> [index |-> index, disk |-> disk, conn |-> conn]]
    /\ call = NoCall
    /\ procs = NoProcs

Next ==
    \/ NewProject
    \/ AddProject
    \/ DeleteProject
    \/ RemoveProject
    \/ SetActiveProject
    \/ ActiveDb
    \/ GetProjects

Spec == Init /\ [][Next]_vars

\* ------------------------------------------------------- reading the state

\* the index entries as a set of [name, folder]
Entries(projects) == {projects[i] : i \in DOMAIN projects}

CurKeys == Keys(index.projects)

PreKeys == Keys(last.pre.index.projects)

\* what get_active_project() returns now / returned before the last call
CurActive == IF index.active = NoKey THEN "default" ELSE index.active

PreActive ==
    IF last.pre.index.active = NoKey THEN "default" ELSE last.pre.index.active

IsRemoval == last.op \in {"delete_project", "remove_project"}

\* the last call was a delete_project/remove_project of a registered project
Removed == IsRemoval /\ last.name \in PreKeys

\* the entries that were registered before the last call, without last.name
PreEntriesWithoutName ==
    {e \in Entries(last.pre.index.projects) : e.name # last.name}

\* ------------------------------------------------------------------ claims

\* C1: after every call the registry holds at least one project, and when a
\* delete_project/remove_project call removed the last project, a project
\* named 'default' is registered afterwards.
C1_RegistryNeverEmpty ==
    /\ Len(index.projects) >= 1
    /\ (Removed /\ PreKeys = {last.name}) => "default" \in CurKeys

C1_Witness ==
    /\ Removed
    /\ PreKeys = {last.name}
    /\ last.name # "default"
    /\ CurKeys = {"default"}

\* C2: after every completed call, successful or failing, the name that
\* get_active_project() returns is registered.
C2_ActiveIsRegistered == CurActive \in CurKeys

C2_Witness ==
    /\ Removed
    /\ last.name = PreActive
    /\ CurActive # PreActive
    /\ CurActive \in CurKeys

\* C3: when delete_project/remove_project removes the active project and a
\* project named 'default' other than the removed one is registered, the
\* active pointer becomes 'default' and the registry is the previous registry
\* without the removed name.
C3_ActiveFallsBackToDefault ==
    (Removed /\ last.name = PreActive /\ "default" \in PreKeys \ {last.name})
        => /\ index.active = "default"
           /\ Entries(index.projects) = PreEntriesWithoutName
           /\ Len(index.projects) = Len(last.pre.index.projects) - 1

C3_Witness ==
    /\ Removed
    /\ last.name = PreActive
    /\ "default" \in PreKeys \ {last.name}
    /\ last.pre.index.projects[1].name # "default"
    /\ Len(index.projects) >= 2
    /\ index.active = "default"

\* C4: when delete_project/remove_project removes the active project, no
\* 'default' remains and another project remains, the active pointer becomes
\* the first remaining project in the registry's iteration order, which is
\* registered and is not 'default'; no 'default' project is created.
C4_ActiveFallsBackToFirst ==
    (Removed /\ last.name = PreActive /\ "default" \notin PreKeys \ {last.name}
             /\ PreKeys # {last.name})
        => LET rest == SelectSeq(last.pre.index.projects,
                                 LAMBDA e : e.name # last.name)
           IN  /\ index.active = rest[1].name
               /\ index.active \in CurKeys
               /\ index.active # "default"
               /\ "default" \notin CurKeys
               /\ Entries(index.projects) = PreEntriesWithoutName

C4_Witness ==
    /\ Removed
    /\ last.name = PreActive
    /\ "default" \notin PreKeys
    /\ Len(index.projects) >= 2
    /\ index.active = index.projects[1].name
    /\ last.pre.index.projects[1].name # last.name

DefaultPath == join(ProjectsDir, "default")

\* C5: when delete_project removes the only registered project, whatever its
\* name, the registry afterwards is exactly {'default'}, its folder and store
\* were created by the call, and the active pointer is 'default'.
C5_DeleteLastReseedsDefault ==
    (last.op = "delete_project" /\ last.name \in PreKeys
                                /\ PreKeys = {last.name})
        => /\ KeyList(index.projects) = <<"default">>
           /\ index.active = "default"
           /\ DefaultPath \in last.created
           /\ disk[DefaultPath] = [exists |-> TRUE, db |-> TRUE, records |-> 1]

\* C6: delete_project/remove_project of a registered project that is not the
\* active one leaves the active pointer unchanged and creates no 'default'
\* project.
C6_NonActiveRemovalKeepsActive ==
    (Removed /\ last.name # PreActive)
        => /\ ~last.raised
           /\ index.active = last.pre.index.active
           /\ Entries(index.projects) = PreEntriesWithoutName
           /\ last.created = {}

C6_Witness ==
    /\ Removed
    /\ last.name # PreActive
    /\ last.name = "default"
    /\ index.active = "a3"
    /\ Len(index.projects) >= 2

IsCreation == last.op \in {"new_project", "add_project"}

\* C7: new_project/add_project raise when the lower-cased name is already
\* registered, and the failing call leaves the registry, the active pointer
\* and every folder as they were.
C7_DuplicateNameRejected ==
    (IsCreation /\ lower(last.name) \in PreKeys)
        => /\ last.raised
           /\ index = last.pre.index
           /\ disk = last.pre.disk

C7_Witness ==
    /\ last.op = "new_project"
    /\ last.name = "P1"
    /\ "p1" \in PreKeys
    /\ last.raised
    /\ index.active # "p1"

\* C8: set_active_project with a name that is not registered raises and
\* leaves the persisted active pointer, the registry and the open store
\* connection unchanged.
C8_SetActiveUnknownRejected ==
    (last.op = "set_active_project" /\ last.name \notin PreKeys)
        => /\ last.raised
           /\ index = last.pre.index
           /\ conn = last.pre.conn
           /\ disk = last.pre.disk

C8_Witness ==
    /\ last.op = "set_active_project"
    /\ last.name \notin PreKeys
    /\ last.raised
    /\ conn # NoConn
    /\ Len(index.projects) >= 2

\* the store of the project called name was on disk before the last call
PreStoreExists(name) ==
    last.pre.disk[ResolvePath(FolderOf(last.pre.index.projects, name))].db

\* the effect of a set_active_project call with a registered name
C9_CallEffect ==
    (last.op = "set_active_project" /\ last.name \in PreKeys)
        => /\ ~last.raised
           /\ last.ret = <<last.name>>
           /\ CurActive = last.name
           /\ index.active = last.name
           /\ index.projects = last.pre.index.projects
           /\ PreStoreExists(last.name) => disk = last.pre.disk

C9_Witness ==
    /\ last.op = "set_active_project"
    /\ last.name \in PreKeys
    /\ PreActive # last.name
    /\ CurActive = last.name
    /\ ~last.raised

\* the active pointer changes only in a call that sets it: a successful
\* set_active_project, a new_project/add_project that registered its project
\* with activate, or a removal of the active project
C9_ActiveChangesOnlyWhenSet ==
    (index.active # last.pre.index.active)
        => \/ last.op = "set_active_project" /\ index.active = last.name
           \/ IsCreation /\ last.activate /\ index.active = lower(last.name)
           \/ Removed /\ last.name = PreActive

\* C9: a set_active_project call with a registered name succeeds, after it
\* get_active_project() returns that name until a call that sets the active
\* pointer changes it, and the registered projects and their folders are
\* what they were before the call (nothing on disk changes either when the
\* project's store was there).
C9_SetActiveTakesEffect == C9_CallEffect /\ C9_ActiveChangesOnlyWhenSet

\* C10: delete_project/remove_project with a name that is not registered
\* raise nothing, return the registry as it is, and leave the registry, the
\* active pointer and every folder unchanged.
C10_RemoveUnknownIsNoOp ==
    (IsRemoval /\ last.name \notin PreKeys)
        => /\ ~last.raised
           /\ last.ret = KeyList(last.pre.index.projects)
           /\ index = last.pre.index
           /\ disk = last.pre.disk
           /\ conn = last.pre.conn

C10_Witness ==
    /\ last.op = "delete_project"
    /\ last.name = "P1"
    /\ "p1" \in CurKeys
    /\ disk[join(ProjectsDir, "p1")].exists
    /\ ~last.raised

\* C11: a successful new_project with an unregistered name adds exactly one
\* entry, under the lower-cased name: get_projects() is the previous names
\* plus that name, and every entry that was there is there with its folder.
C11_NewProjectAddsOneEntry ==
    (last.op = "new_project" /\ lower(last.name) \notin PreKeys /\ ~last.raised)
        => /\ CurKeys = PreKeys \cup {lower(last.name)}
           /\ Len(index.projects) = Len(last.pre.index.projects) + 1
           /\ Entries(last.pre.index.projects) \subseteq Entries(index.projects)

C11_Witness ==
    /\ last.op = "new_project"
    /\ last.name = "P1"
    /\ ~last.raised
    /\ "p1" \notin PreKeys
    /\ CurKeys = {"default", "p1", "a3"}

\* C12: a successful add_project on an existing folder with a valid store
\* adds exactly one entry, the lower-cased name mapped to the path, leaves
\* every other entry as it was and neither deletes nor re-creates the folder.
C12_AddProjectAddsOneEntry ==
    (last.op = "add_project" /\ ~last.raised)
        => /\ Entries(index.projects) =
                Entries(last.pre.index.projects)
                    \cup {[name |-> lower(last.name), folder |-> last.arg]}
           /\ Len(index.projects) = Len(last.pre.index.projects) + 1
           /\ disk = last.pre.disk
           /\ last.created = {}

C12_Witness ==
    /\ last.op = "add_project"
    /\ last.name = "A3"
    /\ ~last.raised
    /\ Len(index.projects) >= 2
    /\ disk[last.arg].records = 1

\* the store at the path given to add_project could be loaded as a project
PreLoadable(path) ==
    /\ last.pre.disk[path].exists
    /\ last.pre.disk[path].db
    /\ last.pre.disk[path].records = 1

\* C13: add_project raises when the path does not exist or its store cannot
\* be loaded as a project; afterwards the registry is what it was before the
\* call and the active pointer is unchanged.
C13_AddProjectRollsBack ==
    (last.op = "add_project" /\ ~PreLoadable(last.arg))
        => /\ last.raised
           /\ index = last.pre.index

C13_Witness ==
    /\ last.op = "add_project"
    /\ last.arg = ExtEmpty
    /\ lower(last.name) \notin PreKeys
    /\ last.raised
    /\ Len(index.projects) >= 2

\* C14: the value delete_project/remove_project return names exactly the
\* projects registered after the call, whether the name was not registered,
\* a non-active project was removed, the active project was removed and the
\* pointer reassigned, or the last project was removed and 'default'
\* re-created.
C14_RemovalReturnsRegistry ==
    (IsRemoval /\ ~last.raised)
        => /\ last.ret = get_projects(Cur)
           /\ Keys(index.projects) = {last.ret[i] : i \in DOMAIN last.ret}

C14_Witness ==
    /\ Removed
    /\ PreKeys = {last.name}
    /\ ~last.raised
    /\ last.ret = <<"default">>

\* the folder of the project the last call removed
RemovedPath == ResolvePath(FolderOf(last.pre.index.projects, last.name))

\* C15: remove_project removes the registry entry alone: the folder and the
\* store of the removed project are on disk after the call as they were
\* before it, also when the removed project was the last one and 'default'
\* is re-created.
C15_RemoveKeepsFolder ==
    (last.op = "remove_project" /\ last.name \in PreKeys)
        => disk[RemovedPath] = last.pre.disk[RemovedPath]

\* the store of the registered project called name is on disk
StoreExists(name) ==
    LET path == ResolvePath(FolderOf(index.projects, name))
    IN  disk[path].exists /\ disk[path].db

\* C16: after every completed call every registered project has a store
\* file at its folder/metadata.db.
C16_RegisteredHaveStore == \A name \in CurKeys : StoreExists(name)

\* C17: a new_project/add_project call that registers its project makes it
\* the active project when activate is true and leaves the active pointer as
\* it was when activate is false.
C17_ActivateFlag ==
    (IsCreation /\ lower(last.name) \in CurKeys \ PreKeys)
        => /\ last.activate => index.active = lower(last.name)
           /\ ~last.activate => index.active = last.pre.index.active

C17_Witness ==
    /\ last.op = "new_project"
    /\ ~last.activate
    /\ ~last.raised
    /\ lower(last.name) \in CurKeys \ PreKeys
    /\ index.active = "a3"

\* =================================================== identifiers (util/misc.py)
\* Strings are sequences of characters; Python's None is a value no string
\* equals.

None == <<"None">>

\* the longest service uri drawn, and the characters it is made of
MaxUriLen == 8

UriChars == {"a", ":", "/"}

\* every string of at most n characters
Strings(chars, n) == UNION {[1..k -> chars] : k \in 0..n}

\* s[i-1:].startswith(sub), positions counted from 1
MatchAt(s, sub, i) ==
    /\ i + Len(sub) - 1 <= Len(s)
    /\ SubSeq(s, i, i + Len(sub) - 1) = sub

startswith(s, prefix) == MatchAt(s, prefix, 1)

\* the first position from i on where sub occurs in s, 0 when there is none
RECURSIVE FindFrom(_, _, _)
FindFrom(s, sub, i) ==
    IF i + Len(sub) - 1 > Len(s) THEN 0
    ELSE IF MatchAt(s, sub, i) THEN i
    ELSE FindFrom(s, sub, i + 1)

\* str.split(sep, maxsplit): cut at the occurrences of sep met from the left,
\* at most maxsplit of them (all of them when maxsplit is -1)
RECURSIVE split(_, _, _)
split(s, sep, maxsplit) ==
    LET i == FindFrom(s, sep, 1)
    IN  IF maxsplit = 0 \/ i = 0
        THEN <<s>>
        ELSE <<SubSeq(s, 1, i - 1)>>
             \o split(SubSeq(s, i + Len(sep), Len(s)), sep, maxsplit - 1)

SchemeSep == <<":", "/", "/">>

\* a parse that cuts at every '/', so the feature ends at the second one
parse_service_uri_every_slash(uri) ==
    LET pieces == split(uri, SchemeSep, -1)
        rest == pieces[Len(pieces)]
        sf == SubSeq(split(rest, <<"/">>, -1) \o <<None>>, 1, 2)
        ps == SubSeq(split(sf[1], <<":">>, -1) \o <<None>>, 1, 2)
    IN  <<ps[1], ps[2], sf[2]>>

\* parse_service_uri(uri) -> (provider, service, feature)
parse_service_uri(uri) ==
    LET pieces == split(uri, SchemeSep, -1)
        rest == pieces[Len(pieces)]
        \* svc, feature = (rest.split('/', 1) + [None])[:2]
        sf == SubSeq(split(rest, <<"/">>, 1) \o <<None>>, 1, 2)
        \* provider, service = (svc.split(':') + [None])[:2]
        ps == SubSeq(split(sf[1], <<":">>, -1) \o <<None>>, 1, 2)
    IN  <<ps[1], ps[2], sf[2]>>

\* the uris of the docstring and of the specification's scenario
UsgsUri ==
    <<"u", "s", "g", "s", "-", "n", "w", "i", "s", ":", "i", "v", "/", "0",
      "1", "5", "2", "9", "5", "0", "0">>

GebcoUri ==
    <<"g", "e", "b", "c", "o", "-", "b", "a", "t", "h", "y", "m", "e", "t",
      "r", "y">>

NedUri ==
    <<"u", "s", "g", "s", "-", "n", "e", "d", ":", "1", "-", "a", "r", "c",
      "-", "s", "e", "c", "o", "n", "d">>

SvcUsgsUri ==
    <<"s", "v", "c", ":", "/", "/", "u", "s", "g", "s", "-", "n", "w", "i",
      "s", ":", "i", "v", "/", "0", "1", "5", "2", "9", "5", "0", "0">>

ServiceUris ==
    Strings(UriChars, MaxUriLen) \cup {UsgsUri, GebcoUri, NedUri, SvcUsgsUri}

\* the registry is not touched while a utility function runs
RegistryAtRest ==
    /\ index = [active |-> NoKey,
                projects |-> <<[name |-> "default", folder |-> "default"]>>]
    /\ disk = InitDisk
    /\ conn = NoConn
    /\ last = [op |-> "init", name |-> "", arg |-> NoFolder, activate |-> FALSE,
               raised |-> FALSE, ret |-> <<>>, leaked |-> {}, created |-> {},
               pre |-> [index |-> index, disk |-> disk, conn |-> conn]]
    /\ procs = NoProcs

InitParse ==
    /\ RegistryAtRest
    /\ call \in {[fn |-> "parse_service_uri", arg |-> uri,
                  done |-> FALSE, ret |-> <<>>] : uri \in ServiceUris}

ParseServiceUri ==
    /\ call.fn = "parse_service_uri"
    /\ ~call.done
    /\ call' = [call EXCEPT !.done = TRUE, !.ret = parse_service_uri(call.arg)]
    /\ UNCHANGED <<index, disk, conn, last, procs>>

NextParse == ParseServiceUri

SpecParse == InitParse /\ [][NextParse]_vars

\* the positions of s where sub occurs
Occurrences(s, sub) == {i \in 1..Len(s) : MatchAt(s, sub, i)}

Min(S) == CHOOSE i \in S : \A j \in S : i <= j

Max(S) == CHOOSE i \in S : \A j \in S : i >= j

\* what is left of uri after dropping everything up to the last '://'
AfterLastScheme(uri) ==
    LET at == Occurrences(uri, SchemeSep)
    IN  IF at = {} THEN uri ELSE SubSeq(uri, Max(at) + 3, Len(uri))

\* the part of s before its first sub (all of s when sub does not occur)
BeforeFirst(s, sub) ==
    LET at == Occurrences(s, sub)
    IN  IF at = {} THEN s ELSE SubSeq(s, 1, Min(at) - 1)

\* the part of s after its first sub, None when sub does not occur
AfterFirst(s, sub) ==
    LET at == Occurrences(s, sub)
    IN  IF at = {} THEN None ELSE SubSeq(s, Min(at) + Len(sub), Len(s))

\* C18: parse_service_uri(uri) returns (provider, service, feature) where,
\* of what follows the last '://', feature is everything after the first '/'
\* (None without a '/'), provider is the part of the remainder before its
\* first ':' and service the part between its first and second ':' (None
\* without a ':'); 'usgs-nwis:iv/01529500' gives ('usgs-nwis', 'iv',
\* '01529500') and 'gebco-bathymetry' gives ('gebco-bathymetry', None, None).
C18_ParseServiceUri ==
    (call.fn = "parse_service_uri" /\ call.done) =>
        LET rest == AfterLastScheme(call.arg)
            remainder == BeforeFirst(rest, <<"/">>)
            afterColon == AfterFirst(remainder, <<":">>)
        IN  /\ call.ret[1] = BeforeFirst(remainder, <<":">>)
            /\ call.ret[2] = IF afterColon = None THEN None
                             ELSE BeforeFirst(afterColon, <<":">>)
            /\ call.ret[3] = AfterFirst(rest, <<"/">>)
            /\ call.arg = UsgsUri =>
                   call.ret = <<SubSeq(UsgsUri, 1, 9), SubSeq(UsgsUri, 11, 12),
                                SubSeq(UsgsUri, 14, 21)>>
            /\ call.arg = GebcoUri => call.ret = <<GebcoUri, None, None>>

\* '://a:a/a' parsed: a uri with a '://' and all three parts
C18_Witness ==
    /\ call.fn = "parse_service_uri"
    /\ call.done
    /\ Occurrences(call.arg, SchemeSep) = {1}
    /\ call.ret = <<<<"a">>, <<"a">>, <<"a">>>>

\* ------------------------------------------------------------------ is_uuid

HexDigits ==
    <<"0", "1", "2", "3", "4", "5", "6", "7",
      "8", "9", "a", "b", "c", "d", "e", "f">>

UpperHexDigits == <<"A", "B", "C", "D", "E", "F">>

\* the value of a hexadecimal digit, -1 for any other character
HexValue(c) ==
    IF \E i \in DOMAIN HexDigits : HexDigits[i] = c
    THEN (CHOOSE i \in DOMAIN HexDigits : HexDigits[i] = c) - 1
    ELSE IF \E i \in DOMAIN UpperHexDigits : UpperHexDigits[i] = c
    THEN (CHOOSE i \in DOMAIN UpperHexDigits : UpperHexDigits[i] = c) + 9
    ELSE -1

RECURSIVE Concat(_)
Concat(pieces) ==
    IF pieces = <<>> THEN <<>> ELSE Head(pieces) \o Concat(Tail(pieces))

\* s.replace(sub, '')
remove(s, sub) == Concat(split(s, sub, -1))

RECURSIVE lstrip(_, _)
lstrip(s, chars) ==
    IF s # <<>> /\ Head(s) \in chars THEN lstrip(Tail(s), chars) ELSE s

RECURSIVE rstrip(_, _)
rstrip(s, chars) ==
    IF s # <<>> /\ s[Len(s)] \in chars
    THEN rstrip(SubSeq(s, 1, Len(s) - 1), chars)
    ELSE s

strip(s, chars) == rstrip(lstrip(s, chars), chars)

UrnPrefix == <<"u", "r", "n", ":">>

UuidPrefix == <<"u", "u", "i", "d", ":">>

\* uuid.UUID(hex, version=version): [raised, hex].  The 'urn:' and 'uuid:'
\* marks, enclosing braces and hyphens are dropped; what is left must be 32
\* hexadecimal digits (int(hex, 16) also reads a sign, a '0x' mark, '_' and
\* blanks, none of which the strings drawn here hold); the variant bits and
\* the version digit are then overwritten.
UUID(hex, version) ==
    LET h == remove(strip(remove(remove(hex, UrnPrefix), UuidPrefix),
                          {"{", "}"}), <<"-">>)
    IN  IF Len(h) # 32 \/ \E i \in 1..Len(h) : HexValue(h[i]) < 0
        THEN [raised |-> TRUE, hex |-> <<>>]
        ELSE [raised |-> FALSE,
              hex |-> [i \in 1..32 |->
                          HexDigits[1 + (IF i = 17 THEN 8 + (HexValue(h[i]) % 4)
                                         ELSE IF i = 13 THEN version
                                         ELSE HexValue(h[i]))]]]

\* an is_uuid without the closing comparison val.hex == uuid
is_uuid_parse_only(uuid) == ~UUID(uuid, 4).raised

\* is_uuid(uuid)
is_uuid(uuid) ==
    LET val == UUID(uuid, 4)
    IN  IF val.raised THEN FALSE ELSE val.hex = uuid

\* ------------------------------------------------------------ classify_uris

\* the most uris passed in one call
MaxUris == 2

SvcPrefix == <<"s", "v", "c", ":", "/", "/">>

PubPrefix == <<"p", "u", "b", ":", "/", "/">>

UriTypes == {"collections", "services", "publishers", "datasets", "features"}

\* the indexes computed for one uri (misc.py:126-130)
Indexes(uri) ==
    LET uuid_idx == is_uuid(uri)
    IN  [services |-> startswith(uri, SvcPrefix),
         publishers |-> startswith(uri, PubPrefix),
         features |-> uuid_idx /\ startswith(uri, <<"f">>),
         datasets |-> uuid_idx /\ startswith(uri, <<"d">>)]

\* the order of the assignments df['type'][idx] = ... (misc.py:132-135)
AssignmentOrder == <<"services", "publishers", "features", "datasets">>

\* the 'type' cell of a row once the assignments from the i-th on are made
RECURSIVE Assign(_, _, _, _)
Assign(idx, order, i, type) ==
    IF i > Len(order) THEN type
    ELSE Assign(idx, order, i + 1, IF idx[order[i]] THEN order[i] ELSE type)

\* listify(uris) of a list
listify(liststr) == liststr

\* the rows whose type is t, in the order of the frame
RECURSIVE RowsOfType(_, _, _, _)
RowsOfType(rows, type, t, i) ==
    IF i > Len(rows) THEN <<>>
    ELSE (IF type[i] = t THEN <<rows[i]>> ELSE <<>>)
         \o RowsOfType(rows, type, t, i + 1)

\* classify_uris(uris, as_dataframe=False, ...) with the assignments made in
\* the given order: [raised, groups], groups mapping each type that occurs
\* to its uris in the order passed
classify_in_order(uris, exclude, require_same_type, order) ==
    LET rows == listify(uris)
        idx == [i \in DOMAIN rows |-> Indexes(rows[i])]
        type == [i \in DOMAIN rows |-> Assign(idx[i], order, 1, "collections")]
        present == {type[i] : i \in DOMAIN rows}
    IN  IF exclude # None /\ \E i \in DOMAIN exclude : exclude[i] \in present
        THEN [raised |-> TRUE, groups |-> <<>>]
        ELSE IF require_same_type /\ Cardinality(present) > 1
        THEN [raised |-> TRUE, groups |-> <<>>]
        ELSE [raised |-> FALSE,
              groups |-> [t \in present |-> RowsOfType(rows, type, t, 1)]]

\* classify_uris(uris, as_dataframe=False, require_same_type, exclude)
classify_uris(uris, exclude, require_same_type) ==
    classify_in_order(uris, exclude, require_same_type, AssignmentOrder)

\* a string shaped like a uuid hex: n characters, the first one, the version
\* digit (13th) and the variant digit (17th) as given, '0' elsewhere
UuidShaped(first, version, variant, n) ==
    [i \in 1..n |-> IF i = 1 THEN first
                    ELSE IF i = 13 THEN version
                    ELSE IF i = 17 THEN variant
                    ELSE "0"]

FeatureId == UuidShaped("f", "4", "8", 32)

DatasetId == UuidShaped("d", "4", "b", 32)

\* 8-4-4-4-12
Hyphenated(u) ==
    SubSeq(u, 1, 8) \o <<"-">> \o SubSeq(u, 9, 12) \o <<"-">>
    \o SubSeq(u, 13, 16) \o <<"-">> \o SubSeq(u, 17, 20) \o <<"-">>
    \o SubSeq(u, 21, 32)

SvcUri == <<"s", "v", "c", ":", "/", "/", "a", ":", "b">>

PubUri == <<"p", "u", "b", ":", "/", "/", "c">>

RawCollection == 
    <<"r", "a", "w", "c", "o", "l", "l", "e", "c", "t", "i", "o", "n">>

\* the strings classified alone: identifiers of each kind, and near misses
UriPool ==
    {FeatureId, DatasetId, SvcUri, PubUri, RawCollection,
     UuidShaped("a", "4", "9", 32),
     UuidShaped("f", "1", "8", 32),
     UuidShaped("d", "4", "0", 32),
     UuidShaped("f", "4", "c", 32),
     UuidShaped("F", "4", "8", 32),
     [FeatureId EXCEPT ![32] = "A"],
     [DatasetId EXCEPT ![2] = "g"],
     UuidShaped("f", "4", "8", 31),
     UuidShaped("d", "4", "b", 33),
     Hyphenated(FeatureId),
     <<"{">> \o DatasetId \o <<"}">>,
     UrnPrefix \o UuidPrefix \o FeatureId,
     <<"s", "v", "c", ":", "/", "a">>, <<"p", "u", "b", ":">>,
     <<"f">>, <<"d">>, <<>>}

\* the strings classified together with others
ListPool ==
    {FeatureId, DatasetId, SvcUri, PubUri, RawCollection,
     UuidShaped("a", "4", "9", 32),
     UuidShaped("d", "1", "8", 32),
     Hyphenated(FeatureId)}

\* the list of scenario F: one uri of each type
ScenarioUris == <<FeatureId, DatasetId, SvcUri, PubUri, RawCollection>>

UriLists ==
    {<<uri>> : uri \in UriPool}
    \cup UNION {[1..n -> ListPool] : n \in 2..MaxUris}
    \cup {ScenarioUris}

\* (exclude, require_same_type)
ClassifyOptions ==
    {<<None, FALSE>>, <<None, TRUE>>,
     <<<<"collections">>, FALSE>>, <<<<"features", "datasets">>, FALSE>>}

InitClassify ==
    /\ RegistryAtRest
    /\ call \in {[fn |-> "classify_uris",
                  arg |-> [uris |-> uris, exclude |-> o[1],
                           require_same_type |-> o[2]],
                  done |-> FALSE, ret |-> <<>>]
                 : uris \in UriLists, o \in ClassifyOptions}

ClassifyUris ==
    /\ call.fn = "classify_uris"
    /\ ~call.done
    /\ call' = [call EXCEPT
                   !.done = TRUE,
                   !.ret = classify_uris(call.arg.uris, call.arg.exclude,
                                         call.arg.require_same_type)]
    /\ UNCHANGED <<index, disk, conn, last, procs>>

NextClassify == ClassifyUris

SpecClassify == InitClassify /\ [][NextClassify]_vars

\* a valid uuid4 hex string: 32 lower-case hexadecimal digits, the version
\* digit 4 and a variant digit of 8, 9, a or b
ValidUuid4Hex(u) ==
    /\ Len(u) = 32
    /\ \A i \in 1..32 : \E k \in DOMAIN HexDigits : u[i] = HexDigits[k]
    /\ u[13] = "4"
    /\ u[17] \in {"8", "9", "a", "b"}

\* the bucket the five rules give a uri
Bucket(u) ==
    IF ValidUuid4Hex(u) /\ u[1] = "f" THEN "features"
    ELSE IF ValidUuid4Hex(u) /\ u[1] = "d" THEN "datasets"
    ELSE IF Len(u) >= 6 /\ SubSeq(u, 1, 6) = SvcPrefix THEN "services"
    ELSE IF Len(u) >= 6 /\ SubSeq(u, 1, 6) = PubPrefix THEN "publishers"
    ELSE "collections"

\* how often u is in the list
Count(list, u) == Cardinality({i \in DOMAIN list : list[i] = u})

\* the orders the four checks can be made in
CheckOrders ==
    {order \in [1..4 -> {"services", "publishers", "features", "datasets"}] :
        \A i, j \in 1..4 : order[i] = order[j] => i = j}

\* C19: classify_uris places every input uri in exactly one of the five
\* buckets: 'features' if it is a valid uuid4 hex string starting with 'f',
\* 'datasets' if it is one starting with 'd', 'services' if it starts with
\* 'svc://', 'publishers' if it starts with 'pub://', 'collections'
\* otherwise; the result is the same in whichever order the four checks are
\* made, and the buckets together hold exactly the input.
C19_ClassifyUris ==
    (call.fn = "classify_uris" /\ call.done /\ ~call.ret.raised) =>
        LET uris == call.arg.uris
            groups == call.ret.groups
        IN  /\ DOMAIN groups \subseteq UriTypes
            /\ \A i \in DOMAIN uris :
                   /\ {t \in DOMAIN groups : Count(groups[t], uris[i]) > 0}
                          = {Bucket(uris[i])}
                   /\ Count(groups[Bucket(uris[i])], uris[i])
                          = Count(uris, uris[i])
            /\ \A t \in DOMAIN groups :
                   /\ groups[t] # <<>>
                   /\ \A j \in DOMAIN groups[t] : Count(uris, groups[t][j]) > 0
            /\ \A order \in CheckOrders :
                   classify_in_order(uris, call.arg.exclude,
                                     call.arg.require_same_type, order)
                       = call.ret

\* scenario F classified: one uri in each of the five buckets
C19_Witness ==
    /\ call.fn = "classify_uris"
    /\ call.done
    /\ call.arg.uris = ScenarioUris
    /\ ~call.ret.raised
    /\ call.ret.groups =
           [t \in UriTypes |->
               CASE t = "features" -> <<FeatureId>>
                 [] t = "datasets" -> <<DatasetId>>
                 [] t = "services" -> <<SvcUri>>
                 [] t = "publishers" -> <<PubUri>>
                 [] t = "collections" -> <<RawCollection>>]

\* --------------------------------------------------------------------- uuid

\* what uuid4().hex can be: 32 hexadecimal digits with the version digit 4
\* and a variant digit of 8, 9, a or b; any first digit.  The digits the
\* functions never look at are '0'.
Uuid4Hexes ==
    {UuidShaped(HexDigits[k], "4", variant, 32) :
        k \in DOMAIN HexDigits, variant \in {"8", "9", "a", "b"}}

ResourceTypes == {"feature", "dataset", "collection", "service"}

\* uuid(resource_type), uuid4().hex being random
uuid(resource_type, random) ==
    LET tagged == IF resource_type = "feature"
                  THEN <<"f">> \o Tail(random)
                  ELSE random
    IN  IF resource_type = "dataset" THEN <<"d">> \o Tail(tagged) ELSE tagged

InitUuid ==
    /\ RegistryAtRest
    /\ call \in {[fn |-> "uuid", arg |-> resource_type, random |-> random,
                  done |-> FALSE, ret |-> <<>>,
                  classified |-> FALSE, groups |-> <<>>]
                 : resource_type \in ResourceTypes, random \in Uuid4Hexes}

Uuid ==
    /\ call.fn = "uuid"
    /\ ~call.done
    /\ call' = [call EXCEPT !.done = TRUE,
                            !.ret = uuid(call.arg, call.random)]
    /\ UNCHANGED <<index, disk, conn, last, procs>>

\* classify_uris([identifier]) of the identifier generated
ClassifyGenerated ==
    /\ call.fn = "uuid"
    /\ call.done
    /\ ~call.classified
    /\ call' = [call EXCEPT
                   !.classified = TRUE,
                   !.groups = classify_uris(<<call.ret>>, None, FALSE).groups]
    /\ UNCHANGED <<index, disk, conn, last, procs>>

NextUuid ==
    \/ Uuid
    \/ ClassifyGenerated

SpecUuid == InitUuid /\ [][NextUuid]_vars

\* C20: the resource type is recoverable from a generated identifier alone:
\* classify_uris puts an identifier produced by uuid(resource_type) in
\* 'features' exactly when resource_type is 'feature' and in 'datasets'
\* exactly when it is 'dataset'; an identifier generated for any other
\* resource type is classified as 'collections'.
C20_TypeRecoverable ==
    (call.fn = "uuid" /\ call.classified) =>
        /\ ("features" \in DOMAIN call.groups) <=> (call.arg = "feature")
        /\ ("datasets" \in DOMAIN call.groups) <=> (call.arg = "dataset")
        /\ call.arg \notin {"feature", "dataset"}
               => call.groups = [t \in {"collections"} |-> <<call.ret>>]

\* ================================= new_project, statement by statement
\* Two processes call new_project for distinct names without locking.  The
\* index file and the folders are shared; a process keeps its own local
\* variables (name, projects, path), its own store connection and the store
\* handles it has open.  init_db and the insertion of the Project record can
\* fail with an exception, which ends the call where it stands.

Procs == {1, 2}

\* the name each process passes
ProcArg(p) == IF p = 1 THEN "P1" ELSE "p2"

\* the world a process acts on
ProcWorld(p) ==
    [index |-> index, disk |-> disk, conn |-> procs[p].conn,
     leaked |-> {}, created |-> {}]

\* the call in process p moves to pc
Goto(p, pc) == [procs EXCEPT ![p].pc = pc]

\* name = name.lower(); projects = _load_projects(); the duplicate check; the
\* folder and path defaults (projects.py:78-98), with the entry written to
\* the index at once
NPLoad_registers_first(p) ==
    /\ procs[p].pc = "call"
    /\ LET name == lower(procs[p].arg)
           projects == load_projects(ProcWorld(p))
       IN  /\ procs' = [procs EXCEPT
                           ![p].name = name,
                           ![p].projects = projects,
                           ![p].path = ResolvePath(name),
                           ![p].raised = name \in Keys(projects),
                           ![p].pc = IF name \in Keys(projects)
                                     THEN "raised" ELSE "mkdir"]
           /\ index' = write_projects(ProcWorld(p),
                                       DictUpdate(projects, name, name)).index
    /\ UNCHANGED <<disk, conn, last, call>>

\* name = name.lower(); projects = _load_projects(); the duplicate check; the
\* folder and path defaults (projects.py:78-98)
NPLoad(p) ==
    /\ procs[p].pc = "call"
    /\ LET name == lower(procs[p].arg)
           projects == load_projects(ProcWorld(p))
       IN  procs' = [procs EXCEPT
                        ![p].name = name,
                        ![p].projects = projects,
                        ![p].path = ResolvePath(name),
                        ![p].raised = name \in Keys(projects),
                        ![p].pc = IF name \in Keys(projects)
                                  THEN "raised" ELSE "mkdir"]
    /\ UNCHANGED <<index, disk, conn, last, call>>

\* util.mkdir_if_doesnt_exist(path) (projects.py:100)
NPMkdir(p) ==
    /\ procs[p].pc = "mkdir"
    /\ disk' = mkdir_if_doesnt_exist(ProcWorld(p), procs[p].path).disk
    /\ procs' = Goto(p, "init_db")
    /\ UNCHANGED <<index, conn, last, call>>

\* db = init_db(dbpath) (projects.py:101-102), or its failure
NPInitDb(p) ==
    /\ procs[p].pc = "init_db"
    /\ \/ /\ disk' = init_db(ProcWorld(p), procs[p].path).disk
          /\ procs' = [procs EXCEPT ![p].pc = "insert",
                                    ![p].open = @ \cup {procs[p].path}]
       \/ /\ disk' = disk
          /\ procs' = [procs EXCEPT ![p].pc = "raised", ![p].raised = TRUE,
                                    ![p].failed = "init_db"]
    /\ UNCHANGED <<index, conn, last, call>>

\* with db_session: db.Project(...) (projects.py:103-106), or its failure
NPInsert(p) ==
    /\ procs[p].pc = "insert"
    /\ \/ /\ disk' = InsertProject(ProcWorld(p), procs[p].path).disk
          /\ procs' = Goto(p, "disconnect")
       \/ /\ disk' = disk
          /\ procs' = [procs EXCEPT ![p].pc = "raised", ![p].raised = TRUE,
                                    ![p].failed = "insert"]
    /\ UNCHANGED <<index, conn, last, call>>

\* db.disconnect() (projects.py:107)
NPDisconnect(p) ==
    /\ procs[p].pc = "disconnect"
    /\ procs' = [procs EXCEPT ![p].pc = "update",
                              ![p].open = @ \ {procs[p].path}]
    /\ UNCHANGED <<index, disk, conn, last, call>>

\* projects.update({name: {'folder': folder}}) (projects.py:108) and the
\* first half of _write_projects(projects): contents = util.read_yaml(path);
\* contents.update({'projects': projects}) (projects.py:285-287)
NPUpdate(p) ==
    /\ procs[p].pc = "update"
    /\ LET projects == DictUpdate(procs[p].projects, procs[p].name, procs[p].name)
       IN  procs' = [procs EXCEPT
                        ![p].pc = "write",
                        ![p].projects = projects,
                        ![p].contents = [read_yaml(ProcWorld(p))
                                            EXCEPT !.projects = projects]]
    /\ UNCHANGED <<index, disk, conn, last, call>>

\* a write that adds the entry to the mapping now on file
NPWrite_merges(p) ==
    /\ procs[p].pc = "write"
    /\ LET merged == DictUpdate(index.projects, procs[p].name, procs[p].name)
       IN  /\ index' = write_yaml(ProcWorld(p),
                                  [procs[p].contents
                                      EXCEPT !.projects = merged]).index
           /\ procs' = [procs EXCEPT
                           ![p].pc = "activate",
                           ![p].lost = @ \cup (Keys(index.projects)
                                                   \ Keys(merged))]
    /\ UNCHANGED <<disk, conn, last, call>>

\* the second half of _write_projects(projects): util.write_yaml(path,
\* contents) (projects.py:288); the contents read before, with the mapping of
\* this process, replace the file; lost collects the names on file that a
\* write of this process dropped
NPWrite(p) ==
    /\ procs[p].pc = "write"
    /\ index' = write_yaml(ProcWorld(p), procs[p].contents).index
    /\ procs' = [procs EXCEPT
                    ![p].pc = "activate",
                    ![p].lost = @ \cup (Keys(index.projects)
                                            \ Keys(procs[p].contents.projects))]
    /\ UNCHANGED <<disk, conn, last, call>>

\* if activate: set_active_project(name) (projects.py:111-112), up to
\* contents.update({'active_project': name}) (projects.py:253-257)
NPActivate(p) ==
    /\ procs[p].pc = "activate"
    /\ LET contents == read_yaml(ProcWorld(p))
       IN  procs' =
               IF ~procs[p].activate
               THEN Goto(p, "return")
               ELSE IF procs[p].name \notin Keys(contents.projects)
               THEN [procs EXCEPT ![p].pc = "raised", ![p].raised = TRUE]
               ELSE [procs EXCEPT
                        ![p].pc = "activate_write",
                        ![p].contents = [contents
                                            EXCEPT !.active = procs[p].name]]
    /\ UNCHANGED <<index, disk, conn, last, call>>

\* util.write_yaml(path, contents) of set_active_project (projects.py:258)
NPActivateWrite(p) ==
    /\ procs[p].pc = "activate_write"
    /\ index' = write_yaml(ProcWorld(p), procs[p].contents).index
    /\ procs' = [procs EXCEPT
                    ![p].pc = "get_active",
                    ![p].lost = @ \cup (Keys(index.projects)
                                            \ Keys(procs[p].contents.projects))]
    /\ UNCHANGED <<disk, conn, last, call>>

\* get_active_project() inside active_db() (projects.py:259, 21, 155-156)
NPGetActive(p) ==
    /\ procs[p].pc = "get_active"
    /\ procs' = [procs EXCEPT
                    ![p].pc = "project_db",
                    ![p].active = get_active_project(ProcWorld(p))]
    /\ UNCHANGED <<index, disk, conn, last, call>>

\* _get_project_db(name) inside active_db() (projects.py:21): the index read
\* and the lookup of the name (projects.py:296-302)
NPProjectDb(p) ==
    /\ procs[p].pc = "project_db"
    /\ LET projects == load_projects(ProcWorld(p))
       IN  procs' =
               IF procs[p].active \notin Keys(projects)
               THEN [procs EXCEPT ![p].pc = "raised", ![p].raised = TRUE]
               ELSE [procs EXCEPT
                        ![p].pc = "project_mkdir",
                        ![p].dbpath =
                            ResolvePath(FolderOf(projects, procs[p].active))]
    /\ UNCHANGED <<index, disk, conn, last, call>>

\* util.mkdir_if_doesnt_exist(path) of _get_project_db (projects.py:304)
NPProjectMkdir(p) ==
    /\ procs[p].pc = "project_mkdir"
    /\ disk' = mkdir_if_doesnt_exist(ProcWorld(p), procs[p].dbpath).disk
    /\ procs' = Goto(p, "get_db")
    /\ UNCHANGED <<index, conn, last, call>>

\* get_db(dbpath, reconnect=True) (projects.py:259)
NPGetDb(p) ==
    /\ procs[p].pc = "get_db"
    /\ LET w == get_db(ProcWorld(p), procs[p].dbpath)
       IN  /\ disk' = w.disk
           /\ procs' = [procs EXCEPT ![p].pc = "return", ![p].conn = w.conn]
    /\ UNCHANGED <<index, conn, last, call>>

\* return _load_project(name) (projects.py:113): the index read and the
\* lookup of _get_project_db(name) (projects.py:296-302)
NPLoadProjectDb(p) ==
    /\ procs[p].pc = "return"
    /\ LET projects == load_projects(ProcWorld(p))
       IN  procs' =
               IF procs[p].name \notin Keys(projects)
               THEN [procs EXCEPT ![p].pc = "raised", ![p].raised = TRUE]
               ELSE [procs EXCEPT
                        ![p].pc = "load_mkdir",
                        ![p].loadpath =
                            ResolvePath(FolderOf(projects, procs[p].name))]
    /\ UNCHANGED <<index, disk, conn, last, call>>

\* util.mkdir_if_doesnt_exist(path) of _get_project_db (projects.py:304)
NPLoadMkdir(p) ==
    /\ procs[p].pc = "load_mkdir"
    /\ disk' = mkdir_if_doesnt_exist(ProcWorld(p), procs[p].loadpath).disk
    /\ procs' = Goto(p, "load_init_db")
    /\ UNCHANGED <<index, conn, last, call>>

\* db = init_db(...) of _load_project (projects.py:264)
NPLoadInitDb(p) ==
    /\ procs[p].pc = "load_init_db"
    /\ disk' = init_db(ProcWorld(p), procs[p].loadpath).disk
    /\ procs' = [procs EXCEPT ![p].pc = "load_get",
                              ![p].open = @ \cup {procs[p].loadpath}]
    /\ UNCHANGED <<index, conn, last, call>>

\* with db_session: project = db.Project.get().to_dict() (projects.py:265-266):
\* it raises unless the store holds exactly one record, the handle left open
NPLoadGet(p) ==
    /\ procs[p].pc = "load_get"
    /\ procs' = IF disk[procs[p].loadpath].records # 1
                THEN [procs EXCEPT ![p].pc = "raised", ![p].raised = TRUE]
                ELSE Goto(p, "load_disconnect")
    /\ UNCHANGED <<index, disk, conn, last, call>>

\* db.disconnect(); del project['id']; return project (projects.py:268-270)
NPLoadDisconnect(p) ==
    /\ procs[p].pc = "load_disconnect"
    /\ procs' = [procs EXCEPT ![p].pc = "returned",
                              ![p].open = @ \ {procs[p].loadpath}]
    /\ UNCHANGED <<index, disk, conn, last, call>>

\* each process is about to call new_project(name, activate=...)
InitProc ==
    /\ index = [active |-> "default",
                projects |-> <<[name |-> "default", folder |-> "default"]>>]
    /\ disk = InitDisk
    /\ conn = NoConn
    /\ last = [op |-> "init", name |-> "", arg |-> NoFolder, activate |-> FALSE,
               raised |-> FALSE, ret |-> <<>>, leaked |-> {}, created |-> {},
               pre |-> [index |-> index, disk |-> disk, conn |-> conn]]
    /\ call = NoCall
    /\ \E activate \in [Procs -> BOOLEAN] :
           procs = [p \in Procs |->
                       [pc |-> "call", arg |-> ProcArg(p),
                        activate |-> activate[p], name |-> "",
                        projects |-> <<>>, path |-> "", conn |-> NoConn,
                        contents |-> [active |-> NoKey, projects |-> <<>>],
                        active |-> "", dbpath |-> "", loadpath |-> "",
                        open |-> {}, raised |-> FALSE, failed |-> "none",
                        lost |-> {}]]

NextProc ==
    \E p \in Procs :
        \/ NPLoad(p)
        \/ NPMkdir(p)
        \/ NPInitDb(p)
        \/ NPInsert(p)
        \/ NPDisconnect(p)
        \/ NPUpdate(p)
        \/ NPWrite(p)
        \/ NPActivate(p)
        \/ NPActivateWrite(p)
        \/ NPGetActive(p)
        \/ NPProjectDb(p)
        \/ NPProjectMkdir(p)
        \/ NPGetDb(p)
        \/ NPLoadProjectDb(p)
        \/ NPLoadMkdir(p)
        \/ NPLoadInitDb(p)
        \/ NPLoadGet(p)
        \/ NPLoadDisconnect(p)

SpecProc == InitProc /\ [][NextProc]_vars

\* the statements of new_project that follow the write of the index
AfterWrite ==
    {"activate", "activate_write", "get_active", "project_db",
     "project_mkdir", "get_db",
     "return", "load_mkdir", "load_init_db", "load_get", "load_disconnect",
     "returned"}

\* the statements of new_project that follow the creation of the directory,
\* the initialization of the store, the insertion of the record
AfterMkdir ==
    {"init_db", "insert", "disconnect", "update", "write"} \cup AfterWrite

AfterInitDb == AfterMkdir \ {"init_db"}

AfterInsert == AfterInitDb \ {"insert"}

\* the names the other processes have passed to new_project
OtherNames(p) == {lower(ProcArg(q)) : q \in Procs \ {p}}

\* the statements of new_project up to the write of the index (the write at
\* projects.py:288 is the statement the call stands before at "write")
BeforeWrite ==
    {"call", "mkdir", "init_db", "insert", "disconnect", "update", "write"}

\* process q has written nothing to the index
NotWritten(q) == procs[q].pc \in BeforeWrite \/ procs[q].failed # "none"

\* the order of the side effects; a call that failed stands where it raised,
\* its name is not registered, and the index is as it was before the calls
\* unless another call has written it
C21_Order ==
    \A p \in Procs :
        /\ procs[p].pc \in AfterMkdir \/ procs[p].failed # "none"
               => disk[procs[p].path].exists
        /\ procs[p].pc \in AfterInitDb \/ procs[p].failed = "insert"
               => disk[procs[p].path].db
        /\ procs[p].pc \in AfterInsert
               => disk[procs[p].path].records >= 1
        /\ lower(ProcArg(p)) \in Keys(index.projects)
               => /\ procs[p].pc \in AfterWrite \cup {"raised"}
                  /\ procs[p].failed = "none"
                  /\ disk[procs[p].path].records >= 1
        /\ procs[p].failed # "none"
               => /\ procs[p].pc = "raised"
                  /\ procs[p].name \notin Keys(index.projects)
                  /\ (\A q \in Procs \ {p} : NotWritten(q))
                         => /\ index.active = "default"
                            /\ KeyList(index.projects) = <<"default">>

\* a step a call takes before its write of the index, the step that raises
\* included, leaves the index, and so the active pointer, as it is
C21_IndexKept ==
    \A p \in Procs :
        (procs[p].pc \in BeforeWrite \ {"write"} /\ procs'[p] # procs[p])
            => index' = index

\* C21: new_project creates the directory, then initializes the store, then
\* inserts the Project record, then writes the name to the index; when the
\* initialization of the store or the insertion of the record fails, the
\* registry does not contain the new name and the active pointer is
\* unchanged: no step of the failing call changes the index.
C21_NewProjectOrder == []C21_Order /\ [][C21_IndexKept]_vars

\* the insertion of the record failed: the folder and an empty store are
\* there, the name is not registered
C21_Witness ==
    \E p \in Procs :
        /\ procs[p].failed = "insert"
        /\ disk[procs[p].path] = [exists |-> TRUE, db |-> TRUE, records |-> 0]
        /\ procs[p].name \notin Keys(index.projects)
        /\ index.active = "default"

\* =============================================== the registry, further on

\* the metadata.db of the project that get_active_project() returns
ActiveStore ==
    join(ResolvePath(FolderOf(index.projects, CurActive)), PROJECT_DB_FILE)

\* the last call changed the active pointer
PointerChanged == index.active # last.pre.index.active

\* C22: after any successful change of the active pointer (by
\* set_active_project, by new_project/add_project with activate, or by the
\* reassignment in remove_project) the process's open store connection
\* targets the metadata.db of the project that get_active_project() returns,
\* and no completed call leaves the connection on the store of a project
\* that was active before or was deleted.
C22_ConnectionFollowsActive ==
    /\ (PointerChanged \/ (last.op = "set_active_project" /\ ~last.raised))
           => conn = ActiveStore
    /\ conn # NoConn => conn = ActiveStore

\* remove_project of the active project moved the pointer and the
\* connection from the store of a3 to the store of 'default'
C22_Witness ==
    /\ last.op = "remove_project"
    /\ ~last.raised
    /\ last.name = "a3"
    /\ last.pre.index.active = "a3"
    /\ last.pre.conn = join(ExtValid, PROJECT_DB_FILE)
    /\ index.active = "default"
    /\ conn = join(join(ProjectsDir, "default"), PROJECT_DB_FILE)

\* C23: every store handle opened by new_project or by _load_project is
\* disconnected before the call returns, when it returns normally and when
\* it raises.
C23_HandlesReleased == last.leaked = {}

\* the number of Project records in the store of a registered project
RecordsOf(name) == disk[ResolvePath(FolderOf(index.projects, name))].records

\* C24: after any sequence of new_project, add_project, remove_project and
\* delete_project calls the store of every registered project holds exactly
\* one Project record, also after new_project in a folder that already holds
\* a store and after the re-creation of a removed project.
C24_OneProjectRecord ==
    (last.op \in {"new_project", "add_project", "remove_project",
                  "delete_project"})
        => \A name \in CurKeys : StoreExists(name) => RecordsOf(name) = 1

\* the state the last call started from, as a world
PreWorld ==
    [index |-> last.pre.index, disk |-> last.pre.disk, conn |-> last.pre.conn,
     leaked |-> {}, created |-> {}]

\* The worlds a call passes through, one after each statement that writes
\* the index or the disk, in order; a call that raises ends the sequence
\* where it stands.

\* set_active_project(name): after util.write_yaml (projects.py:258), after
\* the mkdir of _get_project_db (304), after get_db (259)
set_active_project_points(w, name) ==
    IF name \notin Keys(read_yaml(w).projects)
    THEN <<>>
    ELSE LET w1 == write_yaml(w, [read_yaml(w) EXCEPT !.active = name])
             a == active_db(w1)
         IN  IF a.raised
             THEN <<w1>>
             ELSE <<w1, a.w, get_db(a.w, a.ret[1])>>

\* _load_project(name): after the mkdir of _get_project_db (projects.py:304),
\* after init_db (264)
load_project_points(w, name) ==
    LET g == get_project_db(w, name)
    IN  IF g.raised THEN <<>> ELSE <<g.w, init_db(g.w, g.ret[1])>>

\* new_project(name, folder=..., activate=...): after the mkdir
\* (projects.py:100), init_db (102), the insertion (103-106), the index
\* write (109), then set_active_project (112) and _load_project (113)
new_project_points(w, argname, folderArg, activate) ==
    LET name == lower(argname)
        projects == load_projects(w)
    IN  IF name \in Keys(projects)
        THEN <<>>
        ELSE LET folder == IF folderArg = NoFolder THEN name ELSE folderArg
                 path == ResolvePath(folder)
                 w1 == mkdir_if_doesnt_exist(w, path)
                 w2 == init_db(w1, path)
                 w3 == InsertProject(w2, path)
                 w4 == write_projects(w3, DictUpdate(projects, name, folder))
                 s == IF activate THEN set_active_project(w4, name)
                                  ELSE Return(w4, <<>>)
             IN  <<w1, w2, w3, w4>>
                 \o (IF activate THEN set_active_project_points(w4, name)
                                 ELSE <<>>)
                 \o (IF s.raised THEN <<>>
                                 ELSE load_project_points(s.w, name))

\* remove_project(name): after the index write (projects.py:220-221), then
\* set_active_project (236) or new_project('default') (233)
remove_project_points(w, name) ==
    LET loaded == load_projects(w)
    IN  IF name \notin Keys(loaded)
        THEN <<>>
        ELSE LET projects == DictDel(loaded, name)
                 w1 == write_projects(w, projects)
             IN  <<w1>> \o
                 (IF name # get_active_project(w1)
                  THEN <<>>
                  ELSE IF "default" \in Keys(projects)
                  THEN set_active_project_points(w1, "default")
                  ELSE IF Len(projects) > 0
                  THEN set_active_project_points(w1, projects[1].name)
                  ELSE new_project_points(w1, "default", NoFolder, TRUE))

\* delete_project(name) of a registered name: the world at the lookup
\* (projects.py:129-133), after shutil.rmtree (135-142), then the worlds of
\* remove_project (144)
delete_project_points(w, name) ==
    LET path == ResolvePath(FolderOf(load_projects(w), name))
        w1 == IF w.disk[path].exists THEN rmtree(w, path) ELSE w
    IN  <<w, w1>> \o remove_project_points(w1, name)

\* the folder of the project the last call deleted
DeletedPath == ResolvePath(FolderOf(last.pre.index.projects, last.name))

\* the last call emptied the registry and re-seeded 'default' in that folder
ReseededInto(path) ==
    /\ PreKeys = {last.name}
    /\ "default" \in CurKeys
    /\ path = join(ProjectsDir, "default")

\* C25: delete_project(name) of a registered name removes the project's
\* folder before it removes the registry entry: at no point during the call
\* is the name absent from the registry while its folder exists, and after
\* the call the folder that belonged to the name does not exist, unless the
\* folder was re-created for the re-seeded 'default' project.
C25_FolderRemovedFirst ==
    (last.op = "delete_project" /\ last.name \in PreKeys) =>
        LET points == delete_project_points(PreWorld, last.name)
        IN  /\ points[Len(points)].index = index
            /\ points[Len(points)].disk = disk
            /\ \A i \in DOMAIN points :
                   (/\ last.name \notin Keys(points[i].index.projects)
                    /\ points[i].disk[DeletedPath].exists)
                       => ReseededInto(DeletedPath)
            /\ disk[DeletedPath].exists => ReseededInto(DeletedPath)

\* ============================================ two new_project calls at once

\* every process read the index before any other process wrote it: the
\* mapping it holds has none of the other names
AllReadBeforeWrites ==
    \A p \in Procs : Keys(procs[p].projects) \cap OtherNames(p) = {}

\* C26: the index update is a read-modify-write that is not atomic: when two
\* new_project calls for distinct names run in different processes and both
\* read the index before either writes it, the later write overwrites the
\* earlier one, and both calls can succeed with one name registered alone.
C26_LostUpdate ==
    ((\A p \in Procs : procs[p].pc = "returned") /\ AllReadBeforeWrites)
        => \E p \in Procs :
               /\ procs[p].lost = OtherNames(p)
               /\ Keys(index.projects) = {"default", procs[p].name}

\* both calls returned, the first one activated its project, and only 'p2'
\* is registered
C26_Witness ==
    /\ \A p \in Procs : procs[p].pc = "returned" /\ ~procs[p].raised
    /\ AllReadBeforeWrites
    /\ procs[1].activate
    /\ KeyList(index.projects) = <<"default", "p2">>
    /\ disk[join(ProjectsDir, "p1")].records = 1

\* the last call changed the registry, the folders or the connection
Acted == index # last.pre.index \/ disk # last.pre.disk \/ conn # last.pre.conn

\* C27: every name written to the registry by new_project or add_project is
\* lower-case, so every registered name stays lower-case; delete_project,
\* remove_project and set_active_project compare their argument with the
\* registry as it is given, so they act on a project only when given its
\* lower-case registered name.
C27_NamesLowerCase ==
    /\ \A name \in CurKeys : lower(name) = name
    /\ (IsCreation /\ lower(last.name) \notin PreKeys)
           => CurKeys \ PreKeys \subseteq {lower(last.name)}
    /\ (last.op \in {"delete_project", "remove_project", "set_active_project"}
        /\ (Acted \/ (last.op = "set_active_project" /\ ~last.raised)))
           => last.name \in PreKeys /\ lower(last.name) = last.name
    /\ (last.op = "set_active_project" /\ last.name \notin PreKeys)
           => last.raised

\* delete_project('P1') while 'p1' is registered: nothing happens
C27_Witness ==
    /\ last.op = "delete_project"
    /\ last.name = "P1"
    /\ "p1" \in PreKeys
    /\ ~Acted
    /\ disk[join(ProjectsDir, "p1")].exists

\* ==================================================== the index file alone
\* get_active_project and _write_projects on the contents the index file has
\* between the statements of the API functions: with or without the
\* 'active_project' key, the key naming a registered project or one just
\* removed, 'default' registered or not.

\* the most projects an index drawn holds
MaxIndexed == 2

IndexNames == {"default", "p1", "p2"}

\* the 'projects' mappings of at most n entries in every insertion order,
\* each project in the folder of its name
ProjectMaps(n) ==
    LET lists == UNION {[1..k -> IndexNames] : k \in 0..n}
    IN  {[i \in DOMAIN l |-> [name |-> l[i], folder |-> l[i]]] :
            l \in {x \in lists : \A i, j \in DOMAIN x : x[i] = x[j] => i = j}}

InitIndex ==
    /\ index \in [active : {NoKey} \cup IndexNames,
                  projects : {sort_keys(m) : m \in ProjectMaps(MaxIndexed)}]
    /\ disk = InitDisk
    /\ conn = NoConn
    /\ last = [op |-> "init", name |-> "", arg |-> NoFolder, activate |-> FALSE,
               raised |-> FALSE, ret |-> <<>>, leaked |-> {}, created |-> {},
               pre |-> [index |-> index, disk |-> disk, conn |-> conn]]
    /\ call = NoCall
    /\ procs = NoProcs

\* get_active_project()
GetActiveProject ==
    /\ call' = [fn |-> "get_active_project", arg |-> <<>>, done |-> TRUE,
                ret |-> get_active_project(Cur), pre |-> index]
    /\ UNCHANGED <<index, disk, conn, last, procs>>

\* _write_projects(projects)
WriteProjects ==
    \E projects \in ProjectMaps(MaxIndexed) :
        /\ index' = write_projects(Cur, projects).index
        /\ call' = [fn |-> "_write_projects", arg |-> projects, done |-> TRUE,
                    ret |-> <<>>, pre |-> index]
        /\ UNCHANGED <<disk, conn, last, procs>>

NextIndex ==
    \/ GetActiveProject
    \/ WriteProjects

SpecIndex == InitIndex /\ [][NextIndex]_vars

\* C28: get_active_project() returns the persisted active_project value when
\* the index has one and 'default' when it has no active_project key,
\* whether or not a project named 'default' is registered; the registry
\* writes of new_project, add_project and remove_project replace the
\* 'projects' key alone and never create, change or remove the
\* active_project key.
C28_ActiveKeyFrame ==
    /\ call.fn = "get_active_project"
           => /\ call.pre.active # NoKey => call.ret = call.pre.active
              /\ call.pre.active = NoKey => call.ret = "default"
              /\ index = call.pre
    /\ call.fn = "_write_projects"
           => /\ index.active = call.pre.active
              /\ Entries(index.projects) = Entries(call.arg)
              /\ Len(index.projects) = Len(call.arg)

\* no active_project key and no project named 'default': 'default' is
\* returned
C28_Witness ==
    /\ call.fn = "get_active_project"
    /\ index.active = NoKey
    /\ KeyList(index.projects) = <<"p1">>
    /\ call.ret = "default"

====
